---- MODULE Spec2Model ----
(***************************************************************************)
(* A model of soil-moisture-server/server.js: the in-memory sensor cache,  *)
(* the phase timeline (phase_logs), and the report archive                 *)
(* (weekly_reports plus the files under public/images).                    *)
(*                                                                         *)
(* Every database statement is one step: a handler that issues a single    *)
(* statement is one action (taken when the statement executes); a handler  *)
(* that chains statements through callbacks is one action per statement,   *)
(* with the closure of the callback kept in `inflight`.                    *)
(***************************************************************************)
EXTENDS Integers, Sequences, FiniteSets, TLC

VARIABLES
  sensorData,      \* server.js:70   let sensorData = {...}
  logs,            \* server.js:9    let logs = []
  daily_water_usage, \* server.js:53 table daily_water_usage, the set of its rows
  usageSeq,        \* server.js:54   AUTOINCREMENT counter of daily_water_usage
  today,           \* server.js:294  DATE('now', 'localtime')
  received,        \* server.js:90   the query GET /update logged last
  phase_logs,      \* server.js:35   table phase_logs, the set of its rows
  phaseSeq,        \* server.js:36   AUTOINCREMENT counter of phase_logs
  initPc,          \* server.js:34   position of the phase_logs initialization
  weekly_reports,  \* server.js:15   table weekly_reports, a function from id to row
  reportSeq,       \* server.js:16   AUTOINCREMENT counter of weekly_reports
  files,           \* server.js:26   names of the files in public/images
  now,             \* server.js:29   Date.now()
  inflight,        \* server.js:184  closures of handlers waiting for a statement
  unlinks,         \* server.js:215  fs.unlink calls issued and not yet completed
  crashed,         \* an exception escaped a callback: the process is gone
  resp             \* the route of the last step, its :id, and the response sent (status 0: none)

vars == <<logs, daily_water_usage, usageSeq, today, sensorData, received, phase_logs, phaseSeq, initPc, weekly_reports, reportSeq,
          files, now, inflight, unlinks, crashed, resp>>

logVars    == <<logs>>
usageVars  == <<daily_water_usage, usageSeq, today>>
sensorVars == <<sensorData, received>>
phaseVars  == <<phase_logs, phaseSeq, initPc>>
reportVars == <<weekly_reports, reportSeq, files, now, inflight, unlinks>>

(***************************************************************************)
(* JavaScript values.  undefined and null are tagged strings that no       *)
(* request carries as text.                                                *)
(***************************************************************************)
Undefined == "<undefined>"
Null      == "<null>"

\* ToBoolean of a string, undefined or null: only "" is a falsy string.
Truthy(v) == v \notin {Undefined, Null, ""}

\* a || b
JsOr(a, b) == IF Truthy(a) THEN a ELSE b

\* A value bound to a SQL parameter: undefined is bound as NULL.
Bind(v) == IF v = Undefined THEN Null ELSE v

\* req.params.id of a route without an :id parameter.
NoId == 0

NoResp == [op |-> "none", id |-> NoId, status |-> 0, body |-> "none"]
\* The handler of route op, called with :id, waits for the store and has not answered.
Pending(op, id) == [op |-> op, id |-> id, status |-> 0, body |-> "none"]

(***************************************************************************)
(* Sensor state cache: GET /update and GET /data.                          *)
(***************************************************************************)
NumSensors == 9
Sensors == 1 .. NumSensors

\* The sensor keys that queries carry, and how many of them at most in one query.
GivenSensors == {1, 2, NumSensors}
MaxGiven == 2

MoistureValues == {Undefined, "", "42"}
StatusValues   == {Undefined, "ON"}
ReadingValues  == {"", "55"}

\* The query strings of GET /update: sensor keys that are absent are undefined.
SensorQueries ==
  { [moisture |-> m, status |-> s, sensor |-> [i \in Sensors |-> IF i \in DOMAIN g THEN g[i] ELSE Undefined]] :
      m \in MoistureValues, s \in StatusValues,
      g \in UNION { [G -> ReadingValues] : G \in { H \in SUBSET GivenSensors : Cardinality(H) <= MaxGiven } } }

\* The query of a request without parameters: nothing was logged yet.
NoQuery == [moisture |-> Undefined, status |-> Undefined, sensor |-> [i \in Sensors |-> Undefined]]

InitSensorData ==
  [averageMoisture |-> Null, relayStatus |-> Null, sensor |-> [i \in Sensors |-> Null]]

\* The object literal assigned to sensorData.
BuildSnapshot(q) ==
  [averageMoisture |-> q.moisture, relayStatus |-> q.status,
   sensor |-> [i \in Sensors |-> JsOr(q.sensor[i], "N/A")]]

\* The guard of the handler: moisture !== undefined && status !== undefined.
UpdateAcceptsEither(q) == q.moisture # Undefined \/ q.status # Undefined

UpdateAccepts(q) == q.moisture # Undefined /\ q.status # Undefined

\* GET /update that fills an absent sensor from the previous snapshot.
GetUpdateMerging(q) ==
  /\ ~crashed
  /\ received' = q
  /\ IF UpdateAccepts(q)
       THEN /\ sensorData' = [BuildSnapshot(q) EXCEPT !.sensor =
                                [i \in Sensors |-> JsOr(q.sensor[i], JsOr(sensorData.sensor[i], "N/A"))]]
            /\ resp' = [op |-> "update", id |-> NoId, status |-> 200, body |-> "Data received"]
       ELSE /\ sensorData' = sensorData
            /\ resp' = [op |-> "update", id |-> NoId, status |-> 400, body |-> "Invalid data"]
  /\ UNCHANGED <<logVars, usageVars, phaseVars, reportVars, crashed>>

GetUpdate(q) ==
  /\ ~crashed
  /\ received' = q
  /\ IF UpdateAccepts(q)
       THEN /\ sensorData' = BuildSnapshot(q)
            /\ resp' = [op |-> "update", id |-> NoId, status |-> 200, body |-> "Data received"]
       ELSE /\ sensorData' = sensorData
            /\ resp' = [op |-> "update", id |-> NoId, status |-> 400, body |-> "Invalid data"]
  /\ UNCHANGED <<logVars, usageVars, phaseVars, reportVars, crashed>>

GetData ==
  /\ ~crashed
  /\ resp' = [op |-> "data", id |-> NoId, status |-> 200, body |-> sensorData]
  /\ UNCHANGED <<logVars, usageVars, sensorVars, phaseVars, reportVars, crashed>>

(***************************************************************************)
(* Phase timeline: the phase_logs initialization, POST /set-phase,         *)
(* GET /current-phase and GET /phase-logs.                                 *)
(***************************************************************************)
\* The table holds at most this many rows (the guard of the INSERT).
MaxPhaseRows == 3

DefaultPhase == "vegetative"
\* new Date().toISOString() at this boot, and at the boot of an earlier run.
BootDate      == "2024-05-01T00:00:00.000Z"
PriorBootDate == "2023-11-01T00:00:00.000Z"

PhaseValues     == {Undefined, "", "flowering"}
StartDateValues == {Undefined, "", "not-a-date", "2024-06-01", "2023-12-31", "June 2, 2023"}

\* Number.NaN, the result of Date.parse on text that is no date.
NaN == -1

\* Date.parse(s) for the texts above, in days since the epoch (every text
\* names a midnight; the server's time zone is taken to be UTC).
DateParse(s) ==
  CASE s = "2024-06-01"   -> 19875
    [] s = "2023-12-31"   -> 19722
    [] s = "June 2, 2023" -> 19510
    [] s = BootDate       -> 19844
    [] s = PriorBootDate  -> 19662
    [] OTHER              -> NaN

\* An isNaN that finds every number to be one.
IsNaNNever(n) == FALSE

IsNaN(n) == n = NaN

\* The bytes of a text, as SQLite's BINARY collation compares them.
Bytes(s) ==
  CASE s = "2024-06-01"   -> <<50, 48, 50, 52, 45, 48, 54, 45, 48, 49>>
    [] s = "2023-12-31"   -> <<50, 48, 50, 51, 45, 49, 50, 45, 51, 49>>
    [] s = "June 2, 2023" -> <<74, 117, 110, 101, 32, 50, 44, 32, 50, 48, 50, 51>>
    [] s = BootDate       -> <<50, 48, 50, 52, 45, 48, 53, 45, 48, 49, 84, 48, 48, 58, 48, 48, 58, 48, 48, 46, 48, 48, 48, 90>>
    [] s = PriorBootDate  -> <<50, 48, 50, 51, 45, 49, 49, 45, 48, 49, 84, 48, 48, 58, 48, 48, 58, 48, 48, 46, 48, 48, 48, 90>>
    [] s = "not-a-date"   -> <<110, 111, 116, 45, 97, 45, 100, 97, 116, 101>>
    [] OTHER              -> << >>

\* memcmp order, the shorter text first when one is a prefix of the other.
RECURSIVE BytesLess(_, _)
BytesLess(a, b) ==
  IF b = << >> THEN FALSE
  ELSE IF a = << >> THEN TRUE
  ELSE IF Head(a) # Head(b) THEN Head(a) < Head(b)
  ELSE BytesLess(Tail(a), Tail(b))

TextLess(s, t) == BytesLess(Bytes(s), Bytes(t))

\* SELECT phase, start_date FROM phase_logs ORDER BY start_date DESC LIMIT 1
CurrentRowByStartDate ==
  CHOOSE r \in phase_logs : \A o \in phase_logs : ~TextLess(r.start_date, o.start_date)

\* SELECT phase, start_date FROM phase_logs ORDER BY id DESC LIMIT 1
CurrentRow ==
  CHOOSE r \in phase_logs : \A o \in phase_logs : o.id <= r.id

\* The row sequences ORDER BY start_date DESC may return: rows of equal text
\* come in either order.
PhaseLogsByStartDateDesc ==
  { s \in [1 .. Cardinality(phase_logs) -> phase_logs] :
      /\ \A i, j \in DOMAIN s : i # j => s[i] # s[j]
      /\ \A i, j \in DOMAIN s : i < j => ~TextLess(s[i].start_date, s[j].start_date) }

\* db.serialize runs CREATE TABLE and SELECT COUNT(*) one after the other at the
\* head of the database queue; a statement a request issues runs after both.
PhaseQueueOpen == initPc \in {"seed", "done"}

\* db.run(CREATE TABLE IF NOT EXISTS phase_logs ...): no callback is given, so
\* a failure is emitted as an 'error' event nobody listens to.
InitCreateTable(err) ==
  /\ ~crashed
  /\ initPc = "create"
  /\ resp' = NoResp
  /\ IF err THEN crashed' = TRUE /\ initPc' = initPc
            ELSE crashed' = FALSE /\ initPc' = "count"
  /\ UNCHANGED <<logVars, usageVars, sensorVars, phase_logs, phaseSeq, reportVars>>

\* The callback of SELECT COUNT(*) that never inserts the default phase.
InitCountNeverSeeds(err) ==
  /\ ~crashed
  /\ initPc = "count"
  /\ resp' = NoResp
  /\ IF err THEN crashed' = TRUE /\ initPc' = initPc
            ELSE crashed' = FALSE /\ initPc' = "done"
  /\ UNCHANGED <<logVars, usageVars, sensorVars, phase_logs, phaseSeq, reportVars>>

\* The callback of SELECT COUNT(*): on an error row is undefined and
\* row.count throws.
InitCount(err) ==
  /\ ~crashed
  /\ initPc = "count"
  /\ resp' = NoResp
  /\ IF err THEN crashed' = TRUE /\ initPc' = initPc
     ELSE /\ crashed' = FALSE
          /\ initPc' = IF Cardinality(phase_logs) = 0 THEN "seed" ELSE "done"
  /\ UNCHANGED <<logVars, usageVars, sensorVars, phase_logs, phaseSeq, reportVars>>

\* The INSERT of the default phase, issued from the callback without a
\* callback of its own.
InitSeed(err) ==
  /\ ~crashed
  /\ initPc = "seed"
  /\ resp' = NoResp
  /\ IF err
       THEN crashed' = TRUE /\ UNCHANGED <<phase_logs, phaseSeq, initPc>>
       ELSE /\ crashed' = FALSE
            /\ phaseSeq' = phaseSeq + 1
            /\ phase_logs' = phase_logs \cup
                 {[id |-> phaseSeq + 1, phase |-> DefaultPhase, start_date |-> BootDate]}
            /\ initPc' = "done"
  /\ UNCHANGED <<logVars, usageVars, sensorVars, reportVars>>

\* POST /set-phase whose INSERT replaces the rows of the table by the new row.
SetPhaseOverwrites(phase, startDate, err) ==
  /\ ~crashed
  /\ IF ~Truthy(phase) \/ ~Truthy(startDate)
       THEN /\ resp' = [op |-> "set-phase", id |-> NoId, status |-> 400, body |-> "Phase and startDate are required"]
            /\ UNCHANGED <<phase_logs, phaseSeq>>
     ELSE IF IsNaN(DateParse(startDate))
       THEN /\ resp' = [op |-> "set-phase", id |-> NoId, status |-> 400, body |-> "Invalid startDate format"]
            /\ UNCHANGED <<phase_logs, phaseSeq>>
     ELSE /\ PhaseQueueOpen
          /\ Cardinality(phase_logs) < MaxPhaseRows
          /\ IF err
               THEN /\ resp' = [op |-> "set-phase", id |-> NoId, status |-> 500, body |-> "Failed to set phase"]
                    /\ UNCHANGED <<phase_logs, phaseSeq>>
               ELSE /\ phaseSeq' = phaseSeq + 1
                    /\ phase_logs' = {[id |-> phaseSeq + 1, phase |-> phase, start_date |-> startDate]}
                    /\ resp' = [op |-> "set-phase", id |-> NoId, status |-> 200,
                                body |-> [id |-> phaseSeq + 1, phase |-> phase, startDate |-> startDate]]
  /\ UNCHANGED <<logVars, usageVars, sensorVars, initPc, reportVars, crashed>>

\* POST /set-phase.
SetPhase(phase, startDate, err) ==
  /\ ~crashed
  /\ IF ~Truthy(phase) \/ ~Truthy(startDate)
       THEN /\ resp' = [op |-> "set-phase", id |-> NoId, status |-> 400, body |-> "Phase and startDate are required"]
            /\ UNCHANGED <<phase_logs, phaseSeq>>
     ELSE IF IsNaN(DateParse(startDate))
       THEN /\ resp' = [op |-> "set-phase", id |-> NoId, status |-> 400, body |-> "Invalid startDate format"]
            /\ UNCHANGED <<phase_logs, phaseSeq>>
     ELSE /\ PhaseQueueOpen
          /\ Cardinality(phase_logs) < MaxPhaseRows
          /\ IF err
               THEN /\ resp' = [op |-> "set-phase", id |-> NoId, status |-> 500, body |-> "Failed to set phase"]
                    /\ UNCHANGED <<phase_logs, phaseSeq>>
               ELSE /\ phaseSeq' = phaseSeq + 1
                    /\ phase_logs' = phase_logs \cup
                         {[id |-> phaseSeq + 1, phase |-> phase, start_date |-> startDate]}
                    /\ resp' = [op |-> "set-phase", id |-> NoId, status |-> 200,
                                body |-> [id |-> phaseSeq + 1, phase |-> phase, startDate |-> startDate]]
  /\ UNCHANGED <<logVars, usageVars, sensorVars, initPc, reportVars, crashed>>

\* GET /current-phase.
GetCurrentPhase(err) ==
  /\ ~crashed
  /\ PhaseQueueOpen
  /\ resp' = IF err THEN [op |-> "current-phase", id |-> NoId, status |-> 500, body |-> "Failed to fetch current phase"]
             ELSE IF phase_logs = {} THEN [op |-> "current-phase", id |-> NoId, status |-> 404, body |-> "No phase data found"]
             ELSE [op |-> "current-phase", id |-> NoId, status |-> 200,
                   body |-> [phase |-> CurrentRow.phase, startDate |-> CurrentRow.start_date]]
  /\ UNCHANGED <<logVars, usageVars, sensorVars, phaseVars, reportVars, crashed>>

\* GET /phase-logs.
GetPhaseLogs(err) ==
  /\ ~crashed
  /\ PhaseQueueOpen
  /\ IF err
       THEN resp' = [op |-> "phase-logs", id |-> NoId, status |-> 500, body |-> "Failed to fetch phase logs"]
       ELSE \E rows \in PhaseLogsByStartDateDesc :
              resp' = [op |-> "phase-logs", id |-> NoId, status |-> 200,
                       body |-> [i \in DOMAIN rows |->
                                   [phase |-> rows[i].phase, start_date |-> rows[i].start_date]]]
  /\ UNCHANGED <<logVars, usageVars, sensorVars, phaseVars, reportVars, crashed>>

(***************************************************************************)
(* Report archive: POST /upload-report, GET /weekly-reports,               *)
(* PUT /update-report/:id, DELETE /delete-report/:id, GET /report/:id.     *)
(***************************************************************************)
\* AUTOINCREMENT assigns at most this many report ids (the guard of the INSERT).
MaxReports == 2
\* Date.now() advances at most to this value.
MaxClock == 2
\* At most this many handlers wait for a second statement at once.
MaxInflight == 2

ReportIds == 1 .. MaxReports

\* The text fields of the multipart body of an upload and of an update.
UploadBodies ==
  { [title |-> "Week 1", reportDate |-> d, description |-> "ok"] : d \in {Undefined, "2024-06-01"} }
\* Upload bodies in which each text field may be absent and the title empty.
CreateBodies ==
  { [title |-> t, reportDate |-> d, description |-> x] :
      t \in {Undefined, "", "Week 1"}, d \in {Undefined, "2024-06-01"}, x \in {Undefined, "ok"} }
UpdateBodies ==
  { [title |-> "Week 1", reportDate |-> "2024-06-01", description |-> "ok"],
    [title |-> "",        reportDate |-> "2024-06-01", description |-> "ok"],
    [title |-> "Week 1", reportDate |-> Undefined,    description |-> "ok"],
    [title |-> "Week 1", reportDate |-> "2024-06-01", description |-> Undefined] }
\* path.extname(file.originalname) of an uploaded file; Undefined: no file part.
UploadValues      == {Undefined, ".png"}

\* multer's filename callback: Date.now() + path.extname(file.originalname).
FileName(ext) == ToString(now) \o ext

\* An upload handler that never stores the name of the file.
UploadedImageNone(upload) == Null

\* req.file ? req.file.filename : null
UploadedImage(upload) == IF upload = Undefined THEN Null ELSE FileName(upload)

\* multer writes the uploaded file to public/images before the handler runs.
Staged(upload) == IF upload = Undefined THEN files ELSE files \cup {FileName(upload)}

\* The row db.get('SELECT image FROM weekly_reports WHERE id = ?') hands to its
\* callback: undefined (found is FALSE) when no row has the id.
SelectImage(id) ==
  IF id \in DOMAIN weekly_reports
    THEN [found |-> TRUE, image |-> weekly_reports[id].image]
    ELSE [found |-> FALSE, image |-> Undefined]

\* !title || !reportDate || !description
UpdateInvalidTitleOnly(title, reportDate, description) == ~Truthy(title)

UpdateInvalid(title, reportDate, description) ==
  ~Truthy(title) \/ ~Truthy(reportDate) \/ ~Truthy(description)

\* image || row.image, for a row that was found.
ImageParamNewOnly(image, row) == image

ImageParam(image, row) == IF Truthy(image) THEN image ELSE row.image

\* The NOT NULL constraints of weekly_reports.
ViolatesNotNull(title, reportDate) == Bind(title) = Null \/ Bind(reportDate) = Null

Without(table, id) == [i \in DOMAIN table \ {id} |-> table[i]]

\* Date.now() moves on.
Tick ==
  /\ ~crashed
  /\ now < MaxClock
  /\ now' = now + 1
  /\ resp' = NoResp
  /\ UNCHANGED <<logVars, usageVars, sensorVars, phaseVars, weekly_reports, reportSeq, files, inflight, unlinks, crashed>>

\* POST /upload-report.
UploadReport(title, reportDate, description, upload, err) ==
  /\ ~crashed
  /\ files' = Staged(upload)
  /\ IF err \/ ViolatesNotNull(title, reportDate)
       THEN /\ resp' = [op |-> "upload-report", id |-> NoId, status |-> 500, body |-> "error"]
            /\ UNCHANGED <<weekly_reports, reportSeq>>
       ELSE /\ reportSeq < MaxReports
            /\ reportSeq' = reportSeq + 1
            /\ weekly_reports' = (reportSeq + 1 :>
                 [title |-> title, report_date |-> reportDate,
                  image |-> UploadedImage(upload), description |-> Bind(description)])
                 @@ weekly_reports
            /\ resp' = [op |-> "upload-report", id |-> NoId, status |-> 200, body |-> "Report saved successfully"]
  /\ UNCHANGED <<logVars, usageVars, sensorVars, phaseVars, now, inflight, unlinks, crashed>>

\* GET /weekly-reports.
GetWeeklyReports(err) ==
  /\ ~crashed
  /\ resp' = IF err THEN [op |-> "weekly-reports", id |-> NoId, status |-> 500, body |-> "error"]
                    ELSE [op |-> "weekly-reports", id |-> NoId, status |-> 200, body |-> weekly_reports]
  /\ UNCHANGED <<logVars, usageVars, sensorVars, phaseVars, reportVars, crashed>>

\* GET /report/:id.
GetReport(id, err) ==
  /\ ~crashed
  /\ resp' = IF err THEN [op |-> "report", id |-> id, status |-> 500, body |-> "Failed to retrieve the report."]
             ELSE IF id \notin DOMAIN weekly_reports
               THEN [op |-> "report", id |-> id, status |-> 404, body |-> "Report not found."]
             ELSE [op |-> "report", id |-> id, status |-> 200, body |-> weekly_reports[id]]
  /\ UNCHANGED <<logVars, usageVars, sensorVars, phaseVars, reportVars, crashed>>

\* PUT /update-report/:id up to the callback of its SELECT: the validation,
\* the SELECT, and the parameters bound to the UPDATE, where row.image throws
\* when no file was uploaded and no row was found.
UpdateReport(id, title, reportDate, description, upload, err) ==
  /\ ~crashed
  /\ files' = Staged(upload)
  /\ IF UpdateInvalid(title, reportDate, description)
       THEN /\ resp' = [op |-> "update-report", id |-> id, status |-> 400, body |-> "Title, date, and description are required."]
            /\ UNCHANGED <<inflight, crashed>>
     ELSE IF err
       THEN /\ resp' = [op |-> "update-report", id |-> id, status |-> 500, body |-> "Failed to retrieve the current report."]
            /\ UNCHANGED <<inflight, crashed>>
     ELSE IF ~Truthy(UploadedImage(upload)) /\ ~SelectImage(id).found
       THEN /\ resp' = Pending("update-report", id)
            /\ crashed' = TRUE
            /\ UNCHANGED inflight
     ELSE /\ Cardinality(inflight) < MaxInflight
          /\ resp' = Pending("update-report", id)
          /\ inflight' = inflight \cup
               {[op |-> "update", id |-> id, title |-> title, reportDate |-> reportDate,
                 image |-> ImageParam(UploadedImage(upload), SelectImage(id)),
                 description |-> description]}
          /\ UNCHANGED crashed
  /\ UNCHANGED <<logVars, usageVars, sensorVars, phaseVars, weekly_reports, reportSeq, now, unlinks>>

\* The UPDATE of PUT /update-report/:id, with the parameters c bound in the
\* callback of the SELECT, and its callback.
UpdateReportRun(c, err) ==
  /\ ~crashed
  /\ c \in inflight
  /\ c.op = "update"
  /\ inflight' = inflight \ {c}
  /\ IF err
       THEN /\ resp' = [op |-> "update-report", id |-> c.id, status |-> 500, body |-> "Failed to update the report in the database."]
            /\ UNCHANGED weekly_reports
       ELSE /\ resp' = [op |-> "update-report", id |-> c.id, status |-> 200, body |-> "Report updated successfully"]
            /\ weekly_reports' =
                 IF c.id \in DOMAIN weekly_reports
                   THEN [weekly_reports EXCEPT ![c.id] =
                           [title |-> c.title, report_date |-> c.reportDate,
                            image |-> c.image, description |-> c.description]]
                   ELSE weekly_reports
  /\ UNCHANGED <<logVars, usageVars, sensorVars, phaseVars, reportSeq, files, now, unlinks, crashed>>

\* DELETE /delete-report/:id up to the callback of its SELECT: fs.unlink of the
\* image the row names is started, and the DELETE is queued.
DeleteReport(id, err) ==
  /\ ~crashed
  /\ IF err
       THEN /\ resp' = [op |-> "delete-report", id |-> id, status |-> 500, body |-> "error"]
            /\ UNCHANGED <<inflight, unlinks>>
       ELSE /\ Cardinality(inflight) < MaxInflight
            /\ resp' = Pending("delete-report", id)
            /\ unlinks' = IF SelectImage(id).found /\ Truthy(SelectImage(id).image)
                            THEN unlinks \cup {SelectImage(id).image}
                            ELSE unlinks
            /\ inflight' = inflight \cup {[op |-> "delete", id |-> id, row |-> SelectImage(id)]}
  /\ UNCHANGED <<logVars, usageVars, sensorVars, phaseVars, weekly_reports, reportSeq, files, now, crashed>>

\* The DELETE of DELETE /delete-report/:id that leaves the row in the table.
DeleteReportRunKeepsRow(c, err) ==
  /\ ~crashed
  /\ c \in inflight
  /\ c.op = "delete"
  /\ inflight' = inflight \ {c}
  /\ resp' = IF err THEN [op |-> "delete-report", id |-> c.id, status |-> 500, body |-> "error"]
                    ELSE [op |-> "delete-report", id |-> c.id, status |-> 200, body |-> "Report deleted successfully"]
  /\ UNCHANGED weekly_reports
  /\ UNCHANGED <<logVars, usageVars, sensorVars, phaseVars, reportSeq, files, now, unlinks, crashed>>

\* The DELETE of DELETE /delete-report/:id and its callback.
DeleteReportRun(c, err) ==
  /\ ~crashed
  /\ c \in inflight
  /\ c.op = "delete"
  /\ inflight' = inflight \ {c}
  /\ IF err
       THEN /\ resp' = [op |-> "delete-report", id |-> c.id, status |-> 500, body |-> "error"]
            /\ UNCHANGED weekly_reports
       ELSE /\ resp' = [op |-> "delete-report", id |-> c.id, status |-> 200, body |-> "Report deleted successfully"]
            /\ weekly_reports' = Without(weekly_reports, c.id)
  /\ UNCHANGED <<logVars, usageVars, sensorVars, phaseVars, reportSeq, files, now, unlinks, crashed>>

\* fs.unlink completes: the file is removed, or the failure is logged.
Unlink(f, ok) ==
  /\ ~crashed
  /\ f \in unlinks
  /\ resp' = NoResp
  /\ unlinks' = unlinks \ {f}
  /\ files' = IF ok THEN files \ {f} ELSE files
  /\ UNCHANGED <<logVars, usageVars, sensorVars, phaseVars, weekly_reports, reportSeq, now, inflight, crashed>>

(***************************************************************************)
(* Event log buffer: POST /log and GET /today-log.                         *)
(***************************************************************************)
\* The buffer holds at most this many entries (the guard of the push).
MaxLogs == 3

\* The JSON bodies of POST /log: a key that is absent is undefined.
LogBodies ==
  { [moisture |-> m, relayStatus |-> "ON", lastSensor |-> l] :
      m \in {Undefined, "42"}, l \in {Undefined, "3"} }

\* new Date(t).toISOString(), for an instant t of fewer than ten milliseconds
\* after the epoch.
ToISOString(t) == "1970-01-01T00:00:00.00" \o ToString(t) \o "Z"

\* JSON.stringify of an object: a key whose value is undefined is left out.
JsonObject(o) == [k \in {x \in DOMAIN o : o[x] # Undefined} |-> o[k]]

\* res.json of an array of objects.
JsonArray(a) == [i \in DOMAIN a |-> JsonObject(a[i])]

\* POST /log that puts the entry at the head of the buffer.
PostLogUnshift(body) ==
  /\ ~crashed
  /\ Len(logs) < MaxLogs
  /\ logs' = <<[time |-> ToISOString(now), moisture |-> body.moisture,
                relayStatus |-> body.relayStatus, lastSensor |-> body.lastSensor]>> \o logs
  /\ resp' = [op |-> "log", id |-> NoId, status |-> 200, body |-> "Log received"]
  /\ UNCHANGED <<usageVars, sensorVars, phaseVars, reportVars, crashed>>

\* POST /log.
PostLog(body) ==
  /\ ~crashed
  /\ Len(logs) < MaxLogs
  /\ logs' = Append(logs, [time |-> ToISOString(now), moisture |-> body.moisture,
                           relayStatus |-> body.relayStatus, lastSensor |-> body.lastSensor])
  /\ resp' = [op |-> "log", id |-> NoId, status |-> 200, body |-> "Log received"]
  /\ UNCHANGED <<usageVars, sensorVars, phaseVars, reportVars, crashed>>

\* GET /today-log.
GetTodayLog ==
  /\ ~crashed
  /\ resp' = [op |-> "today-log", id |-> NoId, status |-> 200, body |-> JsonArray(logs)]
  /\ UNCHANGED <<logVars, usageVars, sensorVars, phaseVars, reportVars, crashed>>

(***************************************************************************)
(* Daily water-usage ledger: insertWaterUsage and GET /water-usage-today.  *)
(***************************************************************************)
\* The table holds at most this many rows (the guard of the INSERT).
MaxUsageRows == 2

\* The local dates of the store, in order, and the dates and totals given to
\* insertWaterUsage.
Days == <<"2024-06-01", "2024-06-02">>
UsageDates  == {Undefined, "2024-06-01", "2024-06-02", "1 June 2024"}
UsageValues == {5, 7}

\* The local date of the store moves on to the next day.
Midnight ==
  /\ ~crashed
  /\ \E i \in 1 .. Len(Days) - 1 : today = Days[i] /\ today' = Days[i + 1]
  /\ resp' = NoResp
  /\ UNCHANGED <<logVars, daily_water_usage, usageSeq, sensorVars, phaseVars, reportVars, crashed>>

\* insertWaterUsage(date, waterUsage): the INSERT and its callback, which logs
\* an error and does nothing else.
InsertWaterUsage(date, waterUsage, err) ==
  /\ ~crashed
  /\ resp' = NoResp
  /\ IF err \/ Bind(date) = Null
       THEN UNCHANGED <<daily_water_usage, usageSeq>>
       ELSE /\ usageSeq < MaxUsageRows
            /\ usageSeq' = usageSeq + 1
            /\ daily_water_usage' = daily_water_usage \cup
                 {[id |-> usageSeq + 1, date |-> date, water_usage |-> waterUsage]}
  /\ UNCHANGED <<logVars, today, sensorVars, phaseVars, reportVars, crashed>>

\* The rows SELECT water_usage ... WHERE date = DATE('now', 'localtime') matches.
UsageRowsOfToday == {r \in daily_water_usage : r.date = today}

\* GET /water-usage-today that answers an error when no row matches.
GetWaterUsageTodayStrict(err) ==
  /\ ~crashed
  /\ IF err \/ UsageRowsOfToday = {}
       THEN resp' = [op |-> "water-usage-today", id |-> NoId, status |-> 500, body |-> "Internal Server Error"]
       ELSE \E r \in UsageRowsOfToday :
              resp' = [op |-> "water-usage-today", id |-> NoId, status |-> 200, body |-> [waterUsage |-> r.water_usage]]
  /\ UNCHANGED <<logVars, usageVars, sensorVars, phaseVars, reportVars, crashed>>

\* GET /water-usage-today: db.get hands over one of the matching rows (the
\* statement has no ORDER BY), or undefined when there is none.
GetWaterUsageToday(err) ==
  /\ ~crashed
  /\ IF err
       THEN resp' = [op |-> "water-usage-today", id |-> NoId, status |-> 500, body |-> "Internal Server Error"]
     ELSE IF UsageRowsOfToday = {}
       THEN resp' = [op |-> "water-usage-today", id |-> NoId, status |-> 200, body |-> [waterUsage |-> 0]]
     ELSE \E r \in UsageRowsOfToday :
            resp' = [op |-> "water-usage-today", id |-> NoId, status |-> 200, body |-> [waterUsage |-> r.water_usage]]
  /\ UNCHANGED <<logVars, usageVars, sensorVars, phaseVars, reportVars, crashed>>

InitCommon ==
  /\ logs = << >>
  /\ daily_water_usage = {}
  /\ usageSeq = 0
  /\ today = "2024-06-01"
  /\ sensorData = InitSensorData
  /\ received = NoQuery
  /\ initPc = "create"
  /\ weekly_reports = << >>
  /\ reportSeq = 0
  /\ files = {}
  /\ now = 1
  /\ inflight = {}
  /\ unlinks = {}
  /\ crashed = FALSE
  /\ resp = NoResp

\* moisture.db is new.
Init ==
  /\ InitCommon
  /\ phase_logs = {}
  /\ phaseSeq = 0

\* moisture.db is new, or is the file an earlier run of the server left.
InitPhase ==
  /\ InitCommon
  /\ \/ phase_logs = {} /\ phaseSeq = 0
     \/ /\ phase_logs = {[id |-> 1, phase |-> DefaultPhase, start_date |-> PriorBootDate]}
        /\ phaseSeq = 1

NextSensor ==
  \/ \E q \in SensorQueries : GetUpdate(q)
  \/ GetData

SpecSensor == Init /\ [][NextSensor]_vars

NextPhase ==
  \/ \E err \in BOOLEAN : InitCreateTable(err)
  \/ \E err \in BOOLEAN : InitCount(err)
  \/ \E err \in BOOLEAN : InitSeed(err)
  \/ \E phase \in PhaseValues, startDate \in StartDateValues, err \in BOOLEAN :
       SetPhase(phase, startDate, err)
  \/ \E err \in BOOLEAN : GetCurrentPhase(err)
  \/ \E err \in BOOLEAN : GetPhaseLogs(err)

SpecPhase == InitPhase /\ [][NextPhase]_vars

NextReport ==
  \/ Tick
  \/ \E b \in UploadBodies, upload \in UploadValues, err \in BOOLEAN :
       UploadReport(b.title, b.reportDate, b.description, upload, err)
  \/ \E err \in BOOLEAN : GetWeeklyReports(err)
  \/ \E id \in ReportIds, err \in BOOLEAN : GetReport(id, err)
  \/ \E id \in ReportIds, b \in UpdateBodies, upload \in UploadValues, err \in BOOLEAN :
       UpdateReport(id, b.title, b.reportDate, b.description, upload, err)
  \/ \E c \in inflight, err \in BOOLEAN : UpdateReportRun(c, err)
  \/ \E id \in ReportIds, err \in BOOLEAN : DeleteReport(id, err)
  \/ \E c \in inflight, err \in BOOLEAN : DeleteReportRun(c, err)
  \/ \E f \in unlinks, ok \in BOOLEAN : Unlink(f, ok)

SpecReport == Init /\ [][NextReport]_vars

\* Uploads of every body, valid or not, with the reads and the delete.
NextCreate ==
  \/ Tick
  \/ \E b \in CreateBodies, upload \in UploadValues, err \in BOOLEAN :
       UploadReport(b.title, b.reportDate, b.description, upload, err)
  \/ \E err \in BOOLEAN : GetWeeklyReports(err)
  \/ \E id \in ReportIds, err \in BOOLEAN : GetReport(id, err)
  \/ \E id \in ReportIds, err \in BOOLEAN : DeleteReport(id, err)
  \/ \E c \in inflight, err \in BOOLEAN : DeleteReportRun(c, err)
  \/ \E f \in unlinks, ok \in BOOLEAN : Unlink(f, ok)

SpecCreate == Init /\ [][NextCreate]_vars

NextLog ==
  \/ Tick
  \/ \E body \in LogBodies : PostLog(body)
  \/ GetTodayLog

SpecLog == Init /\ [][NextLog]_vars

NextUsage ==
  \/ Midnight
  \/ \E date \in UsageDates, waterUsage \in UsageValues, err \in BOOLEAN :
       InsertWaterUsage(date, waterUsage, err)
  \/ \E err \in BOOLEAN : GetWaterUsageToday(err)

SpecUsage == Init /\ [][NextUsage]_vars

(***************************************************************************)
(* Claims about the sensor state cache.                                    *)
(***************************************************************************)
\* The snapshot a query asks for, stated field by field.
IsSnapshotOf(d, q) ==
  /\ d.averageMoisture = q.moisture
  /\ d.relayStatus = q.status
  /\ \A i \in Sensors :
       d.sensor[i] = IF q.sensor[i] \in {Undefined, ""} THEN "N/A" ELSE q.sensor[i]

\* C3: read() returns exactly the snapshot built from the last accepted update.
\* An accepted update leaves the cache equal to the snapshot of its own query
\* alone (a sensor it omits or leaves empty is "N/A", whatever the cache held);
\* a read returns the cache and leaves it alone; and the cache changes in no
\* other step.
C3_ReadReturnsLastUpdate ==
  [][ /\ (resp'.op = "update" /\ resp'.status = 200) => IsSnapshotOf(sensorData', received')
      /\ resp'.op = "data" => (resp'.body = sensorData /\ sensorData' = sensorData)
      /\ sensorData' # sensorData => (resp'.op = "update" /\ resp'.status = 200) ]_vars

\* A read after an update that set sensor 2 only: sensor 1 reads "N/A".
C3_Witness ==
  /\ resp.op = "data"
  /\ resp.body.averageMoisture = "42"
  /\ resp.body.sensor[2] = "55"
  /\ resp.body.sensor[1] = "N/A"

\* C4: an update without moisture or without status is answered 400 and leaves
\* the cached snapshot as it was.
C4_RejectedUpdateKeepsSnapshot ==
  [][ (resp'.op = "update" /\ (received'.moisture = Undefined \/ received'.status = Undefined))
        => (resp'.status = 400 /\ sensorData' = sensorData) ]_vars

\* An update without moisture was rejected while the cache held an accepted snapshot.
C4_Witness ==
  /\ resp.op = "update"
  /\ resp.status = 400
  /\ received.moisture = Undefined
  /\ received.status = "ON"
  /\ sensorData.averageMoisture = "42"

(***************************************************************************)
(* Claims about the phase timeline.                                        *)
(***************************************************************************)
HasGreatestId(r) == r \in phase_logs /\ \A o \in phase_logs : o.id <= r.id

\* C1: the record a successful setPhase inserts (the response echoes its id,
\* phase and startDate) has the greatest identifier of the timeline, and a
\* successful currentPhase returns the phase and start date of the record with
\* the greatest identifier, whatever the start dates are.
C1_CurrentPhaseIsLastInserted ==
  /\ (resp.op = "set-phase" /\ resp.status = 200) =>
       HasGreatestId([id |-> resp.body.id, phase |-> resp.body.phase,
                      start_date |-> resp.body.startDate])
  /\ (resp.op = "current-phase" /\ resp.status = 200) =>
       \E r \in phase_logs :
         /\ HasGreatestId(r)
         /\ resp.body = [phase |-> r.phase, startDate |-> r.start_date]

\* currentPhase returned a phase set by setPhase while a record with a later
\* start date is in the timeline.
C1_Witness ==
  /\ resp.op = "current-phase"
  /\ resp.status = 200
  /\ resp.body.phase = "flowering"
  /\ \E o \in phase_logs : DateParse(o.start_date) > DateParse(resp.body.startDate)

\* C2: once the initialization has completed, the timeline holds the default
\* "vegetative" record, so it is never empty, and currentPhase answers with a
\* phase (or with the store's error), never with not-found.
C2_SeededTimelineNeverEmpty ==
  /\ [](initPc = "done" => (phase_logs # {} /\ \E r \in phase_logs : r.phase = "vegetative"))
  /\ [][(initPc = "done" /\ resp'.op = "current-phase") => resp'.status \in {200, 500}]_vars

\* currentPhase right after the first initialization returns the seeded record.
C2_Witness ==
  /\ initPc = "done"
  /\ resp.op = "current-phase"
  /\ resp.status = 200
  /\ resp.body = [phase |-> "vegetative", startDate |-> BootDate]
  /\ Cardinality(phase_logs) = 1

\* C12: a setPhase whose phase is empty or absent, or whose startDate is
\* absent or empty, is answered 400 "required"; one whose startDate is text
\* that is no date is answered 400 "Invalid startDate format"; both whatever
\* the store would have answered, and both leave the table and its counter as
\* they were, so that every read returns what it did before.
C12_InvalidSetPhaseRejected ==
  [][ \A phase \in PhaseValues, startDate \in StartDateValues, err \in BOOLEAN :
        SetPhase(phase, startDate, err) =>
          /\ (phase \in {Undefined, ""} \/ startDate \in {Undefined, ""}) =>
               /\ resp'.status = 400
               /\ resp'.body = "Phase and startDate are required"
               /\ phase_logs' = phase_logs /\ phaseSeq' = phaseSeq
          /\ (phase = "flowering" /\ startDate = "not-a-date") =>
               /\ resp'.status = 400
               /\ resp'.body = "Invalid startDate format"
               /\ phase_logs' = phase_logs /\ phaseSeq' = phaseSeq ]_vars

\* setPhase("flowering", "not-a-date") was rejected while the timeline holds
\* the seed and a row an earlier setPhase inserted.
C12_Witness ==
  /\ resp.op = "set-phase"
  /\ resp.status = 400
  /\ resp.body = "Invalid startDate format"
  /\ initPc = "done"
  /\ Cardinality(phase_logs) = 2
  /\ \A r \in phase_logs : r.start_date # "not-a-date"

\* C13: no step removes or changes a row of the timeline; a successful
\* setPhase adds exactly one row, whose identifier is greater than every
\* identifier in the table, and answers with that identifier and with the
\* phase and startDate it was given.
C13_TimelineAppendOnly ==
  [][ /\ phase_logs \subseteq phase_logs'
      /\ (resp'.op = "set-phase" /\ resp'.status = 200) =>
           /\ \E r \in phase_logs' :
                /\ r \notin phase_logs
                /\ phase_logs' = phase_logs \cup {r}
                /\ \A o \in phase_logs : o.id < r.id
                /\ resp'.body = [id |-> r.id, phase |-> r.phase, startDate |-> r.start_date]
           /\ \A phase \in PhaseValues, startDate \in StartDateValues :
                SetPhase(phase, startDate, FALSE) =>
                  (resp'.body.phase = phase /\ resp'.body.startDate = startDate)
      /\ (resp'.op # "set-phase" \/ resp'.status # 200) =>
           (phase_logs' # phase_logs => (initPc = "seed" /\ initPc' = "done")) ]_vars

\* The third row of the timeline was inserted by a setPhase that answered id 3.
C13_Witness ==
  /\ resp.op = "set-phase"
  /\ resp.status = 200
  /\ resp.body.id = 3
  /\ {r.id : r \in phase_logs} = {1, 2, 3}

\* C14: the rows history() answers with are all the rows of the timeline,
\* and each starts no earlier than the rows after it.
C14_HistoryLatestStartFirst ==
  (resp.op = "phase-logs" /\ resp.status = 200) =>
    /\ Len(resp.body) = Cardinality(phase_logs)
    /\ \A i, j \in DOMAIN resp.body :
         i < j => DateParse(resp.body[i].start_date) >= DateParse(resp.body[j].start_date)

\* C19: a phase read that the store answered ran after the seeding of the
\* default phase had completed, on a timeline that is not empty.
C19_ReadsFollowSeeding ==
  (resp.op \in {"current-phase", "phase-logs"} /\ resp.status # 500) =>
    (initPc = "done" /\ phase_logs # {})

(***************************************************************************)
(* Claims about the report archive.                                        *)
(***************************************************************************)
Missing(v) == v \in {Undefined, Null, ""}

\* C5: an update of an existing report binds, as the image of its UPDATE, the
\* uploaded file's name when a file was uploaded and otherwise the image its
\* read of the record returned; its UPDATE, when it succeeds, leaves exactly
\* that image on the record; and no step of an update removes a file from
\* public/images, so a replaced asset stays on disk.
C5_UpdateKeepsOrReplacesImage ==
  [][ /\ (resp'.op = "update-report" /\ resp'.status = 0 /\ ~crashed') =>
           \A b \in UpdateBodies, upload \in UploadValues :
             ( /\ UpdateReport(resp'.id, b.title, b.reportDate, b.description, upload, FALSE)
               /\ resp'.id \in DOMAIN weekly_reports )
             => /\ files \subseteq files'
                /\ \E c \in inflight' :
                     /\ c.op = "update" /\ c.id = resp'.id
                     /\ c.image = IF upload = Undefined THEN weekly_reports[c.id].image
                                  ELSE ToString(now) \o upload
                     /\ upload # Undefined => c.image \in files'
      /\ (resp'.op = "update-report" /\ resp'.status = 200) =>
           /\ files' = files
           /\ \A c \in inflight :
                (UpdateReportRun(c, FALSE) /\ c.id \in DOMAIN weekly_reports)
                => weekly_reports'[c.id].image = c.image ]_vars

\* Report 1 references 2.png after a successful update, and 1.png is on disk.
C5_Witness ==
  /\ resp.op = "update-report"
  /\ resp.status = 200
  /\ 1 \in DOMAIN weekly_reports
  /\ weekly_reports[1].image = "2.png"
  /\ {"1.png", "2.png"} \subseteq files

\* C6 as claimed, for the step that follows the answer: once delete(id) has
\* reported success, no record has the identifier, now and after the next step.
C6_DeletedNeverReturns ==
  [][ (resp.op = "delete-report" /\ resp.status = 200)
        => (resp.id \notin DOMAIN weekly_reports /\ resp.id \notin DOMAIN weekly_reports') ]_vars

\* C6 as amended: when the DELETE of delete(id) succeeds, no record has the
\* identifier, whatever became of the image file; an identifier the store has
\* assigned, once without a record, never has one again; and get(id) of an
\* identifier without a record answers not-found unless the store fails.
C6_DeletedStaysDeleted ==
  [][ /\ (resp'.op = "delete-report" /\ resp'.status = 200)
           => resp'.id \notin DOMAIN weekly_reports'
      /\ \A id \in 1 .. reportSeq :
           id \notin DOMAIN weekly_reports => id \notin DOMAIN weekly_reports'
      /\ (resp'.op = "report" /\ resp'.id \notin DOMAIN weekly_reports)
           => /\ resp'.status \in {404, 500}
              /\ GetReport(resp'.id, FALSE) => resp'.status = 404 ]_vars

\* get(1) answered not-found after report 1 was deleted, while a file an
\* upload stored is still on disk and no removal is under way.
C6_Witness ==
  /\ resp.op = "report"
  /\ resp.id = 1
  /\ resp.status = 404
  /\ reportSeq = 1
  /\ 1 \notin DOMAIN weekly_reports
  /\ "1.png" \in files
  /\ unlinks = {}
  /\ inflight = {}

\* C7, at the step that deletes the record: when delete(id) read a
\* record that referenced an image and its DELETE removes the record, the
\* image the record references at that moment is off the disk or its removal
\* is under way.  (Nothing the delete does later removes it.)  The case stated
\* is the one where the image is no longer the one the delete read.
C7_DeleteRemovesAssetOfDeletedRecord ==
  [][ (resp'.op = "delete-report" /\ resp'.status = 200) =>
        \A c \in inflight :
          ( /\ DeleteReportRun(c, FALSE)
            /\ c.row.found /\ Truthy(c.row.image)
            /\ c.id \in DOMAIN weekly_reports
            /\ Truthy(weekly_reports[c.id].image)
            /\ weekly_reports[c.id].image # c.row.image )
          => \/ weekly_reports[c.id].image \notin files'
             \/ weekly_reports[c.id].image \in unlinks' ]_vars

\* C8: an update whose title, date or description is missing or empty is
\* answered 400 whatever the store would have answered: no step of the update
\* route that answers otherwise, or does not answer, is the step of such a
\* request; and the step that answers 400 queues no statement and leaves every
\* record as it was.
C8_InvalidUpdateRejected ==
  [][ (resp'.op = "update-report") =>
        /\ resp'.status = 400 =>
             /\ weekly_reports' = weekly_reports
             /\ inflight' = inflight
             /\ crashed' = crashed
        /\ resp'.status # 400 =>
             \A b \in {x \in UpdateBodies : Missing(x.title) \/ Missing(x.reportDate) \/ Missing(x.description)},
                upload \in UploadValues, err \in BOOLEAN :
               ~UpdateReport(resp'.id, b.title, b.reportDate, b.description, upload, err) ]_vars

\* An update of report 1 was rejected and the report still has its image.
C8_Witness ==
  /\ resp.op = "update-report"
  /\ resp.id = 1
  /\ resp.status = 400
  /\ 1 \in DOMAIN weekly_reports
  /\ weekly_reports[1].image = "1.png"
  /\ weekly_reports[1].title = "Week 1"

\* C9 as claimed: an update with its mandatory fields present, of an
\* identifier no record has, raises no exception, never answers success, and
\* changes no record.
C9_UpdateOfMissingReportFails ==
  [][ (resp'.op = "update-report") =>
        /\ \A b \in UpdateBodies, upload \in UploadValues, err \in BOOLEAN :
             ( /\ UpdateReport(resp'.id, b.title, b.reportDate, b.description, upload, err)
               /\ ~(Missing(b.title) \/ Missing(b.reportDate) \/ Missing(b.description))
               /\ resp'.id \notin DOMAIN weekly_reports )
             => (~crashed' /\ weekly_reports' = weekly_reports)
        /\ \A c \in inflight, err \in BOOLEAN :
             (UpdateReportRun(c, err) /\ c.id > reportSeq)
             => (resp'.status \in {404, 500} /\ weekly_reports' = weekly_reports) ]_vars

\* C10 as claimed: no exception escapes a handler or a callback.
C10_NoUnhandledException == ~crashed

\* C11: every record of the store has a title, a report date and a
\* description that are present and not empty.
C11_RecordsHaveMandatoryFields ==
  \A id \in DOMAIN weekly_reports :
    /\ ~Missing(weekly_reports[id].title)
    /\ ~Missing(weekly_reports[id].report_date)
    /\ ~Missing(weekly_reports[id].description)

\* C18: a successful create adds exactly one record, under an identifier
\* above every identifier assigned so far (the counter never goes back, and
\* deleting a record does not lower it), and leaves the other records alone;
\* the record holds the title and date of the request, its description (NULL
\* when the request had none) and the name of the stored file (NULL when the
\* request had no file); a successful get(id) answers with the record of that
\* identifier and a successful list() with every record.
C18_CreateAddsOneRecord ==
  [][ /\ reportSeq' >= reportSeq
      /\ \A id \in DOMAIN weekly_reports' : id <= reportSeq'
      /\ (resp'.op = "upload-report" /\ resp'.status = 200) =>
           \E id \in DOMAIN weekly_reports' :
             /\ id > reportSeq
             /\ DOMAIN weekly_reports' = DOMAIN weekly_reports \cup {id}
             /\ \A o \in DOMAIN weekly_reports : weekly_reports'[o] = weekly_reports[o]
             /\ \A b \in CreateBodies, upload \in UploadValues :
                  UploadReport(b.title, b.reportDate, b.description, upload, FALSE) =>
                    weekly_reports'[id] =
                      [title |-> b.title, report_date |-> b.reportDate,
                       image |-> IF upload = Undefined THEN Null ELSE ToString(now) \o upload,
                       description |-> IF b.description = Undefined THEN Null ELSE b.description]
      /\ (resp'.op = "report" /\ resp'.status = 200) =>
           (resp'.id \in DOMAIN weekly_reports /\ resp'.body = weekly_reports[resp'.id])
      /\ (resp'.op = "weekly-reports" /\ resp'.status = 200) => resp'.body = weekly_reports ]_vars

\* A create has just added report 2, with a file, after report 1 was deleted.
C18_Witness ==
  /\ resp.op = "upload-report"
  /\ resp.status = 200
  /\ DOMAIN weekly_reports = {2}
  /\ weekly_reports[2].image = "2.png"
  /\ weekly_reports[2].title = "Week 1"

\* C20: no two records reference the same image file.
C20_ImagesHaveOneOwner ==
  \A i, j \in DOMAIN weekly_reports :
    (i # j /\ weekly_reports[i].image # Null) => weekly_reports[i].image # weekly_reports[j].image

(***************************************************************************)
(* Claims about the daily water-usage ledger and the event log buffer.     *)
(***************************************************************************)
\* C15: usageForToday answers 200 unless the store reports an error; its
\* answer is the usage of a ledger row whose date is the store's local date
\* when there is such a row, and 0 when there is none; it changes no row.
C15_UsageOfTodayOrZero ==
  [][ (resp'.op = "water-usage-today") =>
        /\ GetWaterUsageToday(FALSE) => resp'.status = 200
        /\ resp'.status # 200 => GetWaterUsageToday(TRUE)
        /\ resp'.status = 200 =>
             IF \E r \in daily_water_usage : r.date = today
               THEN \E r \in daily_water_usage :
                      r.date = today /\ resp'.body.waterUsage = r.water_usage
               ELSE resp'.body.waterUsage = 0
        /\ daily_water_usage' = daily_water_usage ]_vars

\* usageForToday answered 0 on the day after the only day the ledger has a
\* row for.
C15_Witness ==
  /\ resp.op = "water-usage-today"
  /\ resp.status = 200
  /\ resp.body.waterUsage = 0
  /\ today = "2024-06-02"
  /\ \E r \in daily_water_usage : r.date = "2024-06-01" /\ r.water_usage = 7

\* C16: the ledger holds at most one row for a date.
C16_OneRowPerDate ==
  \A r, o \in daily_water_usage : r.date = o.date => r = o

\* C17: an append is answered "Log received" and puts one entry, with the
\* fields of its body and the server's time, behind the entries of the buffer,
\* which stay as they are and in their order; no other step changes the
\* buffer; readAll answers with every entry of the buffer, in its order.
C17_LogBufferAppendOnly ==
  [][ /\ (resp'.op = "log") =>
           /\ resp'.status = 200
           /\ Len(logs') = Len(logs) + 1
           /\ SubSeq(logs', 1, Len(logs)) = logs
           /\ \A body \in LogBodies :
                PostLog(body) =>
                  logs'[Len(logs')] = [time |-> ToISOString(now), moisture |-> body.moisture,
                                       relayStatus |-> body.relayStatus, lastSensor |-> body.lastSensor]
      /\ (resp'.op # "log") => logs' = logs
      /\ (resp'.op = "today-log") =>
           /\ resp'.status = 200
           /\ Len(resp'.body) = Len(logs)
           /\ \A i \in DOMAIN logs :
                /\ resp'.body[i].time = logs[i].time
                /\ resp'.body[i].relayStatus = logs[i].relayStatus
                /\ \A k \in {"moisture", "lastSensor"} :
                     IF logs[i][k] = Undefined THEN k \notin DOMAIN resp'.body[i]
                     ELSE resp'.body[i][k] = logs[i][k] ]_vars

\* readAll returned two entries in arrival order: the first came with a
\* moisture value at time 1, the second without one at time 2.
C17_Witness ==
  /\ resp.op = "today-log"
  /\ Len(resp.body) = 2
  /\ resp.body[1].time = ToISOString(1)
  /\ "moisture" \in DOMAIN resp.body[1]
  /\ resp.body[1].moisture = "42"
  /\ resp.body[2].time = ToISOString(2)
  /\ "moisture" \notin DOMAIN resp.body[2]

====
